---- MODULE Spec2Model ----
(***************************************************************************)
(* Model of CSharpDemo/LoadTests/load-test.py: make_request,               *)
(* run_load_test (thread pool, collection loop, statistics) and main, and  *)
(* of the port loop of web/serve.py.                                       *)
(*                                                                         *)
(* Units.  Times are integers: the clock `now`, start_time, total_time     *)
(* and the elapsed times kept in `results` are in microseconds (0.001 ms), *)
(* so that round(x, 2) of a latency in milliseconds is a real conversion.  *)
(* The fields of a statistics record that the code rounds to two decimals  *)
(* are integers in hundredths of their unit.                               *)
(***************************************************************************)
EXTENDS Integers, Sequences, FiniteSets, TLC

VARIABLES
    concurrent,   \* run_load_test parameter `concurrent`
    total,        \* run_load_test parameter `total`
    pc,           \* position of the thread that runs run_load_test
    now,          \* the wall clock read by time.time()
    start_time,   \* local start_time of run_load_test
    total_time,   \* local total_time of run_load_test
    submitted,    \* number of executor.submit calls made so far
    queue,        \* the executor's work queue (future ids, FIFO)
    threads,      \* number of worker threads the executor has started
    blocked,      \* number of worker threads blocked on the empty work queue
    idle_sem,     \* the executor's idle-worker semaphore
    fstate,       \* per future: "pending", "running", "finished"
    fresult,      \* per future: the outcome make_request returned
    rstart,       \* per future: local `start` of its make_request call
    calls,        \* per future: how many times make_request was called for it
    gets,         \* history, per future: how its HTTP GET ended
    yielded,      \* futures as_completed has already yielded
    results,      \* local list `results`
    errors,       \* local counter `errors`
    completed,    \* local counter `completed`
    order,        \* history: future ids in the order their outcome was collected
    ret,          \* return value of run_load_test
    all_results,  \* main: dict all_results
    cmp_idx,      \* main: index of the next entry of `comparisons`
    improvement,  \* main: the values `improvement` took for the current pair
    mpc,          \* main: position in main
    trace,        \* history: the calls main has made, with what they returned
    port_idx,     \* serve.py: index in ports_to_try of the port of the iteration
    spc,          \* serve.py: position in the script
    attempts,     \* history: the ports serve.py tried to bind, with the outcome
    exit_code,    \* serve.py: status the script exited with
    printed       \* serve.py: the last message the script printed

vars == <<concurrent, total, pc, now, start_time, total_time, submitted, queue,
          threads, blocked, idle_sem, fstate, fresult, rstart, calls, gets, yielded,
          results, errors, completed, order, ret,
          all_results, cmp_idx, improvement, mpc, trace,
          port_idx, spc, attempts, exit_code, printed>>

runVars == <<concurrent, total, pc, now, start_time, total_time, submitted, queue,
             threads, blocked, idle_sem, fstate, fresult, rstart, calls, gets, yielded,
             results, errors, completed, order, ret>>

mainVars == <<all_results, cmp_idx, improvement, mpc, trace>>

serveVars == <<port_idx, spc, attempts, exit_code, printed>>

----------------------------------------------------------------------------
(* Bounds of the model *)

MaxConcurrent == 2
MaxTotal == 2
MaxElapsed == 1
MaxSamples == 10
MaxShort == 3
MainTotal == 1

(* One step of the clock, in microseconds. *)
TickUs == 1253

----------------------------------------------------------------------------
(* Arithmetic helpers *)

RECURSIVE Pow2(_)
Pow2(k) == IF k = 0 THEN 1 ELSE 2 * Pow2(k - 1)

RECURSIVE BitLen(_)
BitLen(x) == IF x = 0 THEN 0 ELSE 1 + BitLen(x \div 2)

RECURSIVE SeqSum(_)
SeqSum(s) == IF s = <<>> THEN 0 ELSE Head(s) + SeqSum(Tail(s))

(* round(a / b) to the nearest integer, ties to even: Python's round() on  *)
(* the exact value.  b > 0.  (On a float that is only near a tie round()   *)
(* goes by its binary value; nothing stated below depends on the direction *)
(* a tie takes.)                                                           *)
RoundDiv(a, b) ==
    LET q == a \div b
        r == a % b
    IN  IF 2 * r < b THEN q
        ELSE IF 2 * r > b THEN q + 1
        ELSE IF q % 2 = 0 THEN q ELSE q + 1

(* round(x, 2) of a latency: microseconds to hundredths of a millisecond. *)
Round2Ms(us) == RoundDiv(us, 10)

----------------------------------------------------------------------------
(* int(n * f) for a binary64 literal f = (hi * 2^26 + lo) / 2^53: the exact *)
(* product is rounded to 53 significant bits (ties to even), then          *)
(* truncated.  The product is held in two limbs to stay inside TLC's       *)
(* integers; n < 16.                                                       *)

Limb == 67108864

F50hi == 67108864
F50lo == 0
F95hi == 127506841
F95lo == 40265318
F99hi == 132875550
F99lo == 48318382

IntMulFloat(n, hi, lo) ==
    LET plo  == (n * lo) % Limb
        phi  == n * hi + (n * lo) \div Limb
        d    == BitLen(phi) - 27
        unit == Pow2(d)
    IN  IF d <= 0 THEN phi \div (2 * Limb)
        ELSE LET rem  == plo % unit
                 keep == plo - rem
                 up   == \/ 2 * rem > unit
                         \/ 2 * rem = unit /\ (plo \div unit) % 2 = 1
                 lo2  == IF up THEN keep + unit ELSE keep
                 phi2 == IF lo2 >= Limb THEN phi + 1 ELSE phi
             IN  phi2 \div (2 * Limb)

----------------------------------------------------------------------------
(* list.sort(): ascending insertion sort *)

RECURSIVE Insert(_, _)
Insert(x, s) ==
    IF s = <<>> THEN <<x>>
    ELSE IF x <= Head(s) THEN <<x>> \o s
    ELSE <<Head(s)>> \o Insert(x, Tail(s))

RECURSIVE Sort(_)
Sort(s) == IF s = <<>> THEN <<>> ELSE Insert(Head(s), Sort(Tail(s)))

SeqMin(s) == CHOOSE x \in {s[i] : i \in 1..Len(s)} : \A j \in 1..Len(s) : x <= s[j]
SeqMax(s) == CHOOSE x \in {s[i] : i \in 1..Len(s)} : \A j \in 1..Len(s) : x >= s[j]

----------------------------------------------------------------------------
(* make_request *)

(* What requests.get(url, timeout=30) can do: return a response with a     *)
(* status code, or raise (timeout, connection failure, other transport     *)
(* error).                                                                 *)
StatusCodes == {"200", "500"}
Exceptions == {"Timeout", "ConnectionError", "RequestException"}
Behaviours == StatusCodes \cup Exceptions

(* The value make_request hands to its caller for one behaviour of the GET *)
(* and the clock readings `start` and `end`.  A record with the field      *)
(* `exception` stands for an exception leaving make_request.               *)
make_request_reraise(behaviour, start, end) ==
    LET elapsed == end - start
    IN  IF behaviour \in StatusCodes
        THEN [success |-> behaviour = "200", time |-> elapsed, status |-> behaviour]
        ELSE IF behaviour = "Timeout"
        THEN [exception |-> behaviour]
        ELSE [success |-> FALSE, time |-> elapsed, status |-> "error",
              error |-> behaviour]

make_request(behaviour, start, end) ==
    LET elapsed == end - start
    IN  IF behaviour \in StatusCodes
        THEN [success |-> behaviour = "200", time |-> elapsed, status |-> behaviour]
        ELSE [success |-> FALSE, time |-> elapsed, status |-> "error",
              error |-> behaviour]

Raised(r) == "exception" \in DOMAIN r

----------------------------------------------------------------------------
(* Statistics of run_load_test *)

NoneValue == [kind |-> "None"]

unsorted_results(rs) == rs

sorted_results(rs) == Sort(rs)

PctIndexOfGaps(n, hi, lo) == IF n > 1 THEN IntMulFloat(n - 1, hi, lo) ELSE 0

PctIndex(n, hi, lo) == IntMulFloat(n, hi, lo)

(* results[k] with Python's index k *)
Item(rs, k) == rs[k + 1]

(* Line 87, `if results:`: a list is true when it is not empty. *)
HasSuccessfulResults(rs, errs) == Len(rs) > errs

HasResults(rs, errs) == rs # <<>>

CountErrorsAll(errs, result) == errs + 1

CountErrors(errs, result) == IF ~result.success THEN errs + 1 ELSE errs

(* Lines 87-123: the value run_load_test returns, or the exception that    *)
(* leaves it, for the collected latencies rs (microseconds), the failure   *)
(* count errs, the parameter tot and the wall time wall (microseconds).    *)
ComputeStats(rs, errs, tot, wall) ==
    IF ~HasResults(rs, errs) THEN NoneValue
    ELSE IF wall = 0 THEN [kind |-> "ZeroDivisionError"]
    ELSE LET srt == sorted_results(rs)
             n   == Len(srt)
         IN  [kind |-> "stats",
              total_requests |-> tot,
              successful |-> tot - errs,
              failed |-> errs,
              total_time_sec |-> RoundDiv(wall, 10000),
              requests_per_sec |-> RoundDiv(tot * 100000000, wall),
              avg_response_ms |-> RoundDiv(SeqSum(srt), 10 * n),
              min_response_ms |-> Round2Ms(SeqMin(srt)),
              max_response_ms |-> Round2Ms(SeqMax(srt)),
              p50_ms |-> Round2Ms(Item(srt, PctIndex(n, F50hi, F50lo))),
              p95_ms |-> Round2Ms(Item(srt, PctIndex(n, F95hi, F95lo))),
              p99_ms |-> Round2Ms(Item(srt, PctIndex(n, F99hi, F99lo)))]

----------------------------------------------------------------------------
(* run_load_test *)

Futures == 1..total

NoOutcome == [status |-> "unset"]

(* Requests a worker has started and that have not returned. *)
InFlight == {i \in Futures : fstate[i] = "running"}

(* Worker threads are interchangeable and are counted: a started thread is *)
(* running a work item, blocked on the empty queue, or about to look at    *)
(* the queue.                                                              *)
ReadyWorkers == threads - blocked - Cardinality(InFlight)

MainIdle ==
    /\ all_results = <<>>
    /\ cmp_idx = 0
    /\ improvement = <<>>
    /\ mpc = "idle"
    /\ trace = <<>>

(* serve.py is a script of its own and is not running. *)
ServeIdle ==
    /\ port_idx = 0
    /\ spc = "idle"
    /\ attempts = <<>>
    /\ exit_code = "none"
    /\ printed = "nothing"

Init ==
    /\ concurrent \in -1..MaxConcurrent
    /\ total \in -1..MaxTotal
    /\ pc = "start"
    /\ now = 0
    /\ start_time = 0
    /\ total_time = 0
    /\ submitted = 0
    /\ queue = <<>>
    /\ threads = 0
    /\ blocked = 0
    /\ idle_sem = 0
    /\ fstate = [i \in Futures |-> "unsubmitted"]
    /\ fresult = [i \in Futures |-> NoOutcome]
    /\ rstart = [i \in Futures |-> 0]
    /\ calls = [i \in Futures |-> 0]
    /\ gets = [i \in Futures |-> "unset"]
    /\ yielded = {}
    /\ results = <<>>
    /\ errors = 0
    /\ completed = 0
    /\ order = <<>>
    /\ ret = [kind |-> "running"]
    /\ MainIdle
    /\ ServeIdle

(* Lines 61-68: the locals are set, the clock is read and the pool is      *)
(* built; ThreadPoolExecutor raises ValueError for max_workers <= 0.  With *)
(* nothing to submit (range(total) empty) the collection loop is next.     *)
PoolRejectsNothing(max_workers) == FALSE

PoolRejects(max_workers) == max_workers <= 0

Start ==
    /\ pc = "start"
    /\ start_time' = now
    /\ IF PoolRejects(concurrent)
       THEN /\ pc' = "raised"
            /\ ret' = [kind |-> "ValueError"]
       ELSE /\ pc' = IF total > 0 THEN "submit" ELSE "collect"
            /\ ret' = ret
    /\ UNCHANGED <<concurrent, total, now, total_time, submitted, queue, threads,
                   blocked, idle_sem, fstate, fresult, rstart, calls, gets, yielded,
                   results, errors, completed, order>>
    /\ UNCHANGED mainVars
    /\ UNCHANGED serveVars

(* Whether executor.submit starts a new worker thread: not when an idle    *)
(* worker is signalled, nor when the pool has max_workers threads.         *)
SpawnUnbounded(sem, nthreads, max_workers) == sem = 0

SpawnOffByOne(sem, nthreads, max_workers) == sem = 0 /\ nthreads + 1 < max_workers

SpawnOnSubmit(sem, nthreads, max_workers) == sem = 0 /\ nthreads < max_workers

(* Line 70, one executor.submit(make_request, url). *)
Submit ==
    /\ pc = "submit"
    /\ LET i == submitted + 1
       IN  /\ submitted' = i
           /\ fstate' = [fstate EXCEPT ![i] = "pending"]
           /\ queue' = Append(queue, i)
           /\ pc' = IF i = total THEN "collect" ELSE "submit"
    /\ idle_sem' = IF idle_sem > 0 THEN idle_sem - 1 ELSE idle_sem
    /\ threads' = IF SpawnOnSubmit(idle_sem, threads, concurrent)
                  THEN threads + 1 ELSE threads
    /\ UNCHANGED <<concurrent, total, now, start_time, total_time, blocked, fresult,
                   rstart, calls, gets, yielded, results, errors, completed, order, ret>>
    /\ UNCHANGED mainVars
    /\ UNCHANGED serveVars

(* A worker that finds the work queue empty signals that it is idle and    *)
(* blocks on the queue.                                                    *)
WorkerIdle ==
    /\ pc \in {"submit", "collect"}
    /\ ReadyWorkers > 0
    /\ queue = <<>>
    /\ blocked' = blocked + 1
    /\ idle_sem' = idle_sem + 1
    /\ UNCHANGED <<concurrent, total, pc, now, start_time, total_time, submitted,
                   queue, threads, fstate, fresult, rstart, calls, gets, yielded, results,
                   errors, completed, order, ret>>
    /\ UNCHANGED mainVars
    /\ UNCHANGED serveVars

(* The work item a worker takes from the queue: the oldest. *)
NextWorkItem(q) == Head(q)

(* A worker (one about to look at the queue, or a blocked one when wasBlocked) *)
(* takes the next work item and enters make_request (line 35).             *)
WorkerTake(wasBlocked) ==
    /\ pc \in {"submit", "collect"}
    /\ IF wasBlocked THEN blocked > 0 ELSE ReadyWorkers > 0
    /\ queue # <<>>
    /\ LET i == NextWorkItem(queue)
       IN  /\ queue' = Tail(queue)
           /\ fstate' = [fstate EXCEPT ![i] = "running"]
           /\ rstart' = [rstart EXCEPT ![i] = now]
           /\ calls' = [calls EXCEPT ![i] = @ + 1]
    /\ blocked' = IF wasBlocked THEN blocked - 1 ELSE blocked
    /\ UNCHANGED <<concurrent, total, pc, now, start_time, total_time, submitted,
                   threads, idle_sem, fresult, gets, yielded, results, errors,
                   completed, order, ret>>
    /\ UNCHANGED mainVars
    /\ UNCHANGED serveVars

(* What make_request does to the failure count of run_load_test: nothing,  *)
(* it has no access to the locals of run_load_test (lines 33-51).          *)
WorkerCountsOwnError(errs, result) == IF ~result.success THEN errs + 1 ELSE errs

ErrorsAfterRequest(errs, result) == errs

(* Lines 36-51: the GET of request i ends in one of its behaviours and its *)
(* worker sets the future's result.  A request takes at least one step of  *)
(* the clock.                                                              *)
WorkerFinish(i, behaviour) ==
    /\ fstate[i] = "running"
    /\ now > rstart[i]
    /\ fresult' = [fresult EXCEPT ![i] = make_request(behaviour, rstart[i], now)]
    /\ fstate' = [fstate EXCEPT ![i] = "finished"]
    /\ gets' = [gets EXCEPT ![i] = behaviour]
    /\ errors' = ErrorsAfterRequest(errors, make_request(behaviour, rstart[i], now))
    /\ UNCHANGED <<concurrent, total, pc, now, start_time, total_time, submitted,
                   queue, threads, blocked, idle_sem, rstart, calls, yielded,
                   results, completed, order, ret>>
    /\ UNCHANGED mainVars
    /\ UNCHANGED serveVars

(* Time passes while requests are in flight; no request stays in flight    *)
(* for more than MaxElapsed steps (its timeout).                           *)
Tick ==
    /\ InFlight # {}
    /\ \A i \in InFlight : now - rstart[i] < MaxElapsed * TickUs
    /\ now' = now + TickUs
    /\ UNCHANGED <<concurrent, total, pc, start_time, total_time, submitted, queue,
                   threads, blocked, idle_sem, fstate, fresult, rstart, calls, gets,
                   yielded, results, errors, completed, order, ret>>
    /\ UNCHANGED mainVars
    /\ UNCHANGED serveVars

(* Line 76 *)
CollectTimeOfSuccess(rs, result) ==
    IF result.success THEN Append(rs, result.time) ELSE rs

CollectTimeUnlessError(rs, result) ==
    IF result.status = "error" THEN rs ELSE Append(rs, result.time)

CollectTime(rs, result) == Append(rs, result.time)

(* as_completed(futures) is exhausted once it has yielded every future. *)
LoopDoneAtFirst(done) == done # {}

LoopDoneWhenAllFinished(done) == \A i \in Futures : fstate[i] = "finished"

LoopDone(done) == done = Futures

(* Whether as_completed(futures) can yield future i next, having yielded   *)
(* the futures in `done`: any finished one, in whatever order they finish. *)
InSubmissionOrder(i, done) ==
    /\ fstate[i] = "finished"
    /\ i \notin done
    /\ \A j \in Futures : j < i => j \in done

AsCompleted(i, done) ==
    /\ fstate[i] = "finished"
    /\ i \notin done

(* Lines 74-82, one iteration: as_completed yields a finished future that  *)
(* it has not yielded yet and the loop body records its outcome.           *)
Collect(i) ==
    /\ pc = "collect"
    /\ AsCompleted(i, yielded)
    /\ yielded' = yielded \cup {i}
    /\ LET result == fresult[i]
       IN  IF Raised(result)
           THEN /\ pc' = "raised"
                /\ ret' = [kind |-> result.exception]
                /\ UNCHANGED <<results, errors, completed, order>>
           ELSE /\ results' = CollectTime(results, result)
                /\ errors' = CountErrors(errors, result)
                /\ completed' = completed + 1
                /\ order' = Append(order, i)
                /\ UNCHANGED <<pc, ret>>
    /\ UNCHANGED <<concurrent, total, now, start_time, total_time, submitted, queue,
                   threads, blocked, idle_sem, fstate, fresult, rstart, calls, gets>>
    /\ UNCHANGED mainVars
    /\ UNCHANGED serveVars

(* Lines 82-84: the loop is over, the with block shuts the pool down (its  *)
(* threads, none of them running a request, exit) and the clock is read.   *)
ExitPool ==
    /\ pc = "collect"
    /\ LoopDone(yielded)
    /\ InFlight = {}
    /\ blocked' = 0
    /\ idle_sem' = 0
    /\ total_time' = now - start_time
    /\ pc' = "stats"
    /\ UNCHANGED <<concurrent, total, now, start_time, submitted, queue, threads,
                   fstate, fresult, rstart, calls, gets, yielded, results, errors,
                   completed, order, ret>>
    /\ UNCHANGED mainVars
    /\ UNCHANGED serveVars

(* Lines 87-123: results.sort() and the statistics, or None. *)
Stats ==
    /\ pc = "stats"
    /\ LET r == ComputeStats(results, errors, total, total_time)
       IN  /\ ret' = r
           /\ pc' = IF r.kind \in {"stats", "None"} THEN "done" ELSE "raised"
    /\ results' = IF results = <<>> THEN results ELSE sorted_results(results)
    /\ UNCHANGED <<concurrent, total, now, start_time, total_time, submitted, queue,
                   threads, blocked, idle_sem, fstate, fresult, rstart, calls, gets,
                   yielded, errors, completed, order>>
    /\ UNCHANGED mainVars
    /\ UNCHANGED serveVars

Next ==
    \/ Start
    \/ Submit
    \/ WorkerIdle
    \/ \E wasBlocked \in BOOLEAN : WorkerTake(wasBlocked)
    \/ \E i \in Futures, b \in Behaviours : WorkerFinish(i, b)
    \/ Tick
    \/ \E i \in Futures : Collect(i)
    \/ ExitPool
    \/ Stats

Spec == Init /\ [][Next]_vars

----------------------------------------------------------------------------
(* The statistics on their own: the computation of lines 87-123 applied to *)
(* the state run_load_test is in when the pool has been exited, for sample *)
(* lists longer and more varied than the pool model produces.              *)

(* Latencies in microseconds; none lies on a x.xx5 ms boundary, where the  *)
(* direction round() takes depends on the binary value of the float.       *)
LatencyValues == {1253, 2506, 10004, 10006}

Arith(base, step, n) == [k \in 1..n |-> base + step * (k - 1)]

Rotate(s, r) == [k \in 1..Len(s) |-> s[((k - 1 + r) % Len(s)) + 1]]

Reverse(s) == [k \in 1..Len(s) |-> s[Len(s) + 1 - k]]

ProgressionLists ==
    LET asc == {Arith(b[1], b[2], n) :
                    b \in {<<10000, 10000>>, <<10004, 2>>}, n \in 1..MaxSamples}
    IN  UNION {{Rotate(s, r) : r \in 0..(Len(s) - 1)} \cup {Reverse(s)} : s \in asc}

ShortLists == UNION {[1..n -> LatencyValues] : n \in 0..MaxShort}

SampleLists == ShortLists \cup ProgressionLists

InitStats ==
    /\ results \in SampleLists
    /\ total = Len(results)
    /\ errors \in {0, total}
    /\ concurrent = 1
    /\ pc = "stats"
    /\ start_time = 0
    /\ total_time \in {SeqMax(results \o <<0>>), SeqSum(results)}
    /\ now = total_time
    /\ submitted = total
    /\ queue = <<>>
    /\ threads = IF total > 0 THEN 1 ELSE 0
    /\ blocked = 0
    /\ idle_sem = 0
    /\ fstate = [i \in Futures |-> "finished"]
    /\ gets = [i \in Futures |-> IF i <= errors THEN "500" ELSE "200"]
    /\ fresult = [i \in Futures |-> make_request(gets[i], 0, results[i])]
    /\ rstart = [i \in Futures |-> 0]
    /\ calls = [i \in Futures |-> 1]
    /\ yielded = Futures
    /\ completed = total
    /\ order = [i \in Futures |-> i]
    /\ ret = [kind |-> "running"]
    /\ MainIdle
    /\ ServeIdle

NextStats == Stats

SpecStats == InitStats /\ [][NextStats]_vars

----------------------------------------------------------------------------
(* What was collected, in collection order, read from the futures. *)
CollectedTimes == [k \in 1..Len(order) |-> fresult[order[k]].time]

Failures == {i \in yielded : ~fresult[i].success}

Successes == {i \in yielded : fresult[i].success}

Returned == pc = "done" /\ ret.kind = "stats"

(* The value at Python index k of the ascending order of the collected     *)
(* latencies: some collected value with at most k values below it and at   *)
(* least k + 1 values not above it.                                        *)
IsKthSmallest(v, k) ==
    LET ts == CollectedTimes
        ix == 1..Len(ts)
    IN  /\ \E j \in ix : ts[j] = v
        /\ Cardinality({j \in ix : ts[j] < v}) <= k
        /\ Cardinality({j \in ix : ts[j] <= v}) >= k + 1

(* h (hundredths of a millisecond) is x microseconds rounded to two        *)
(* decimals of a millisecond.                                              *)
IsRounded2(h, x) == 10 * h - x <= 5 /\ x - 10 * h <= 5

----------------------------------------------------------------------------
(* C1: for concurrent >= 1 and total >= 1, under every interleaving, when  *)
(* the pool has been exited exactly `total` requests were issued and       *)
(* exactly `total` outcomes were collected: every submitted request was    *)
(* run once and contributes exactly one entry of `results`, its own        *)
(* elapsed time; at no time is a request run or collected twice.           *)
C1_ExactlyTotalCollected ==
    /\ \A i \in Futures :
           /\ calls[i] <= 1
           /\ Cardinality({k \in 1..Len(order) : order[k] = i}) <= 1
    /\ Len(results) = Len(order)
    /\ pc \in {"stats", "done"} /\ total >= 1 =>
           /\ Len(results) = total
           /\ completed = total
           /\ \A i \in Futures :
                  /\ calls[i] = 1
                  /\ \E k \in 1..Len(order) : order[k] = i
    /\ pc = "stats" => results = CollectedTimes

C1_Witness ==
    /\ pc = "stats"
    /\ concurrent >= 2
    /\ total >= 2
    /\ Len(results) = total
    /\ order[1] = 2

(* C2: in every reachable state the number of requests in flight is at     *)
(* most `concurrent`, although all requests are submitted up front.        *)
C2_InFlightBounded ==
    Cardinality(InFlight) <= (IF concurrent > 0 THEN concurrent ELSE 0)

C2_Witness ==
    /\ concurrent >= 1
    /\ total > concurrent
    /\ submitted = total
    /\ Cardinality(InFlight) = concurrent
    /\ queue # <<>>

(* C3: a returned statistics record has successful + failed =              *)
(* total_requests, failed being the number of collected outcomes whose     *)
(* success flag is false and successful the number whose flag is true.     *)
C3_CountsAddUp ==
    Returned =>
        /\ ret.successful + ret.failed = ret.total_requests
        /\ ret.total_requests = total
        /\ ret.failed = Cardinality(Failures)
        /\ ret.successful = Cardinality(Successes)

C3_Witness ==
    /\ Returned
    /\ ret.failed >= 1
    /\ ret.successful >= 1

(* C4: for a non-empty set of collected latencies the returned statistics  *)
(* satisfy min <= p50 <= p95 <= p99 <= max.                                *)
C4_PercentilesMonotone ==
    Returned =>
        /\ ret.min_response_ms <= ret.p50_ms
        /\ ret.p50_ms <= ret.p95_ms
        /\ ret.p95_ms <= ret.p99_ms
        /\ ret.p99_ms <= ret.max_response_ms

C4_Witness ==
    /\ Returned
    /\ Len(order) >= 3
    /\ CollectedTimes[1] > CollectedTimes[2]
    /\ ret.min_response_ms < ret.p50_ms
    /\ ret.p50_ms < ret.p95_ms

Percentiles == {<<50, "p50_ms">>, <<95, "p95_ms">>, <<99, "p99_ms">>}

ExampleTimes == Arith(10000, 10000, 10)

(* C5 as amended: for every sample size n >= 1 and P in {50, 95, 99} the   *)
(* reported percentile is the element of the ascending-sorted latencies at *)
(* index floor(n * P / 100), rounded to two decimals; the index is within  *)
(* 0..n-1; for the latencies 10, 20, ..., 100 ms p50 is 60 and p95 is 100. *)
C5_PercentileIsRoundedElement ==
    Returned =>
        LET n == Len(order)
        IN  /\ \A p \in Percentiles :
                   LET k == (n * p[1]) \div 100
                   IN  /\ k \in 0..(n - 1)
                       /\ \E v \in {CollectedTimes[j] : j \in 1..n} :
                              /\ IsKthSmallest(v, k)
                              /\ IsRounded2(ret[p[2]], v)
            /\ Sort(CollectedTimes) = ExampleTimes =>
                   ret.p50_ms = 6000 /\ ret.p95_ms = 10000

C5_Witness ==
    /\ Returned
    /\ Len(order) = 10
    /\ CollectedTimes # ExampleTimes
    /\ Sort(CollectedTimes) = ExampleTimes
    /\ ret.p50_ms = 6000
    /\ ret.p95_ms = 10000

(* C5 as stated: the reported percentile is the element itself (in         *)
(* microseconds, ten times the reported hundredths of a millisecond).      *)
C5_PercentileIsElement ==
    Returned =>
        \A p \in Percentiles :
            IsKthSmallest(10 * ret[p[2]], (Len(order) * p[1]) \div 100)

(* C6: make_request never lets an error reach its caller: however the GET  *)
(* ends, the future holds an outcome record with an elapsed time, whose    *)
(* success flag is true exactly when a response with status 200 came back; *)
(* no run is ended by an exception of a request.                           *)
C6_RequestOutcomeTotal ==
    /\ \A i \in Futures :
           fstate[i] = "finished" =>
               LET r == fresult[i]
               IN  /\ ~Raised(r)
                   /\ {"success", "time", "status"} \subseteq DOMAIN r
                   /\ r.time > 0
                   /\ r.time <= now - rstart[i]
                   /\ r.success <=> gets[i] = "200"
                   /\ gets[i] \in Exceptions => r.status = "error" /\ r.error = gets[i]
                   /\ gets[i] \in StatusCodes => r.status = gets[i]
    /\ pc = "raised" => ret.kind \notin Exceptions

C6_Witness ==
    \E i, j \in yielded :
        /\ gets[i] = "Timeout"
        /\ ~fresult[i].success
        /\ gets[j] = "500"
        /\ ~fresult[j].success
        /\ pc = "done"

(* C7 as amended: a run with concurrent <= 0 fails with the ValueError of  *)
(* the pool constructor before any request is issued; a run with           *)
(* concurrent >= 1 and total <= 0 is not rejected: it issues no request,   *)
(* raises nothing and returns the empty result None.                       *)
C7_ConfigHandling ==
    /\ concurrent <= 0 /\ pc # "start" =>
           /\ pc = "raised"
           /\ ret.kind = "ValueError"
           /\ submitted = 0
           /\ \A i \in Futures : calls[i] = 0
    /\ concurrent >= 1 /\ total <= 0 =>
           /\ pc # "raised"
           /\ submitted = 0
           /\ threads = 0
           /\ pc = "done" => ret = NoneValue

C7_Witness ==
    /\ concurrent >= 1
    /\ total = 0
    /\ pc = "done"
    /\ ret = NoneValue

(* C7 as stated: a run with total <= 0 or concurrent <= 0 ends in an       *)
(* error and never in a returned value. *)
C7_InvalidConfigRejected ==
    (total <= 0 \/ concurrent <= 0) => pc # "done"

(* C8: failed requests never abort a run: for total >= 1 the run collects  *)
(* all `total` outcomes and returns a statistics record whichever requests *)
(* fail; when all fail the record has successful = 0, failed =             *)
(* total_requests and latency fields computed from the failed requests'    *)
(* elapsed times.                                                          *)
C8_FailuresDoNotAbort ==
    /\ concurrent >= 1 => pc # "raised"
    /\ pc = "done" /\ total >= 1 =>
           /\ ret.kind = "stats"
           /\ Len(results) = total
           /\ Failures = Futures =>
                  /\ ret.successful = 0
                  /\ ret.failed = ret.total_requests
                  /\ ret.failed = total
                  /\ \E i \in Failures :
                         /\ IsKthSmallest(fresult[i].time, 0)
                         /\ IsRounded2(ret.min_response_ms, fresult[i].time)
                  /\ \E i \in Failures :
                         /\ IsKthSmallest(fresult[i].time, total - 1)
                         /\ IsRounded2(ret.max_response_ms, fresult[i].time)
                  /\ LET sum == SeqSum(CollectedTimes)
                     IN  /\ 10 * total * ret.avg_response_ms - sum <= 5 * total
                         /\ sum - 10 * total * ret.avg_response_ms <= 5 * total

C8_Witness ==
    /\ pc = "done"
    /\ total >= 2
    /\ Failures = Futures
    /\ ret.kind = "stats"
    /\ ret.failed = total
    /\ \E i \in Futures : gets[i] = "Timeout"

----------------------------------------------------------------------------
(* main, lines 192-219: the comparison of the async with the sync results. *)

Keys == {"async_users", "async_orders", "sync_users", "sync_orders"}

comparisons ==
    << <<"Users Endpoint", "async_users", "sync_users">>,
       <<"Orders Endpoint", "async_orders", "sync_orders">> >>

(* Truth value of all_results.get(key): None is false, a statistics dict   *)
(* (never empty) is true.                                                  *)
Truthy(v) == v.kind = "stats"

(* Line 198, the condition of the comparison. *)
EitherTruthy(async_result, sync_result) == Truthy(async_result) \/ Truthy(sync_result)

BothTruthy(async_result, sync_result) == Truthy(async_result) /\ Truthy(sync_result)

(* Whether v can be subscripted with a field name; None cannot             *)
(* (TypeError).                                                            *)
Subscriptable(v) == v.kind = "stats"

RECURSIVE Gcd(_, _)
Gcd(a, b) == IF b = 0 THEN a ELSE Gcd(b, a % b)

Abs(x) == IF x < 0 THEN -x ELSE x

(* A float quotient num / den, kept exact, in lowest terms; den = 0 marks  *)
(* a division by zero.                                                     *)
Ratio(num, den) ==
    IF den = 0 THEN [num |-> num, den |-> 0]
    ELSE LET g == Gcd(Abs(num), Abs(den))
         IN  [num |-> num \div g, den |-> den \div g]

(* Lines 206-207 *)
ThroughputImprovementSwapped(async_stats, sync_stats) ==
    Ratio((sync_stats.requests_per_sec - async_stats.requests_per_sec) * 100,
          async_stats.requests_per_sec)

ThroughputImprovement(async_stats, sync_stats) ==
    Ratio((async_stats.requests_per_sec - sync_stats.requests_per_sec) * 100,
          sync_stats.requests_per_sec)

(* Lines 213-214 *)
LatencyImprovement(async_stats, sync_stats) ==
    Ratio((sync_stats.avg_response_ms - async_stats.avg_response_ms) * 100,
          sync_stats.avg_response_ms)

(* One iteration of the loop of line 197.  `improvement` holds the values  *)
(* assigned to the local of that name in the iteration; a division by zero *)
(* raises ZeroDivisionError and a subscript of None raises TypeError, both *)
(* of which leave main.                                                    *)
Compare ==
    /\ mpc = "compare"
    /\ cmp_idx <= Len(comparisons)
    /\ LET async_key == comparisons[cmp_idx][2]
           sync_key  == comparisons[cmp_idx][3]
       IN  IF BothTruthy(all_results[async_key], all_results[sync_key])
           THEN LET async_stats == all_results[async_key]
                    sync_stats  == all_results[sync_key]
                    thr == ThroughputImprovement(async_stats, sync_stats)
                    lat == LatencyImprovement(async_stats, sync_stats)
                IN  IF ~Subscriptable(async_stats) \/ ~Subscriptable(sync_stats)
                    THEN /\ improvement' = <<>>
                         /\ mpc' = "raised"
                         /\ cmp_idx' = cmp_idx
                    ELSE IF thr.den = 0
                    THEN /\ improvement' = <<>>
                         /\ mpc' = "raised"
                         /\ cmp_idx' = cmp_idx
                    ELSE IF lat.den = 0
                    THEN /\ improvement' = <<thr>>
                         /\ mpc' = "raised"
                         /\ cmp_idx' = cmp_idx
                    ELSE /\ improvement' = <<thr, lat>>
                         /\ mpc' = "compare"
                         /\ cmp_idx' = cmp_idx + 1
           ELSE /\ improvement' = <<>>
                /\ mpc' = "compare"
                /\ cmp_idx' = cmp_idx + 1
    /\ UNCHANGED <<all_results, trace>>
    /\ UNCHANGED runVars
    /\ UNCHANGED serveVars

(* Lines 221-232: the loop is over and main prints its closing text. *)
Finish ==
    /\ mpc = "compare"
    /\ cmp_idx > Len(comparisons)
    /\ mpc' = "done"
    /\ UNCHANGED <<all_results, cmp_idx, improvement, trace>>
    /\ UNCHANGED runVars
    /\ UNCHANGED serveVars

(* Values run_load_test can have returned to main: None, and the           *)
(* statistics of a few runs, among them a run so slow that its rounded     *)
(* throughput is 0.0 and one so fast that its rounded average is 0.0.      *)
SampleRuns ==
    { <<(<<10004, 10008>>), 20000>>,
      <<(<<10004, 10008, 1253>>), 20000>>,
      <<(<<2506>>), 40000>>,
      <<(<<10004>>), 300000000>>,
      <<(<<3>>), 40000>> }

ResultValues ==
    {NoneValue} \cup {ComputeStats(r[1], 0, Len(r[1]), r[2]) : r \in SampleRuns}

RunQuiet ==
    /\ concurrent = 1
    /\ total = 0
    /\ pc = "done"
    /\ now = 0
    /\ start_time = 0
    /\ total_time = 0
    /\ submitted = 0
    /\ queue = <<>>
    /\ threads = 0
    /\ blocked = 0
    /\ idle_sem = 0
    /\ fstate = <<>>
    /\ fresult = <<>>
    /\ rstart = <<>>
    /\ calls = <<>>
    /\ gets = <<>>
    /\ yielded = {}
    /\ results = <<>>
    /\ errors = 0
    /\ completed = 0
    /\ order = <<>>
    /\ ret = NoneValue

InitCompare ==
    /\ RunQuiet
    /\ all_results \in [Keys -> ResultValues]
    /\ cmp_idx = 1
    /\ improvement = <<>>
    /\ mpc = "compare"
    /\ trace = <<>>
    /\ ServeIdle

NextCompare ==
    \/ Compare
    \/ Finish

SpecCompare == InitCompare /\ [][NextCompare]_vars

----------------------------------------------------------------------------
(* The pair the loop handled last, or is stopped at. *)
LastPair == IF mpc = "raised" THEN cmp_idx ELSE cmp_idx - 1

Baseline == all_results[comparisons[LastPair][3]]

Candidate == all_results[comparisons[LastPair][2]]

Compared == LastPair >= 1 /\ Truthy(Baseline) /\ Truthy(Candidate)

(* C9: when the baseline (sync) statistics have requests_per_sec = 0 or    *)
(* avg_response_ms = 0, the comparison reports an undefined delta and does *)
(* not raise: the loop goes on to the next pair with every delta of the    *)
(* pair reported.                                                          *)
C9_ZeroBaselineDoesNotRaise ==
    Compared /\ (Baseline.requests_per_sec = 0 \/ Baseline.avg_response_ms = 0) =>
        /\ mpc # "raised"
        /\ Len(improvement) = 2

(* C10: for statistics with non-zero baseline values the throughput delta  *)
(* is (candidate.rps - baseline.rps) / baseline.rps * 100 and the          *)
(* average-latency delta (baseline.avg - candidate.avg) / baseline.avg *   *)
(* 100, the sync endpoint being the baseline and the async endpoint the    *)
(* candidate; baseline.rps = 100 and candidate.rps = 150 give +50.         *)
C10_DeltaFormulas ==
    Compared /\ Baseline.requests_per_sec # 0 /\ Baseline.avg_response_ms # 0 =>
        /\ mpc # "raised"
        /\ Len(improvement) = 2
        /\ improvement[1].den # 0
        /\ improvement[2].den # 0
        /\ improvement[1].num * Baseline.requests_per_sec =
               (Candidate.requests_per_sec - Baseline.requests_per_sec) * 100
                   * improvement[1].den
        /\ improvement[2].num * Baseline.avg_response_ms =
               (Baseline.avg_response_ms - Candidate.avg_response_ms) * 100
                   * improvement[2].den
        /\ Baseline.requests_per_sec = 10000 /\ Candidate.requests_per_sec = 15000 =>
               improvement[1].num = 50 * improvement[1].den

C10_Witness ==
    /\ Compared
    /\ LastPair = 2
    /\ mpc = "done"
    /\ Baseline.requests_per_sec = 10000
    /\ Candidate.requests_per_sec = 15000
    /\ Len(improvement) = 2
    /\ improvement[1].num = 50 * improvement[1].den
    /\ Candidate.avg_response_ms < Baseline.avg_response_ms
    /\ improvement[2].num > 0

----------------------------------------------------------------------------
(* The longest a request stays in flight: its timeout. *)
RequestTimeout == MaxElapsed * TickUs

(* When request i returned. *)
FinishTime(i) == rstart[i] + fresult[i].time

Later(a, b) == IF a >= b THEN a ELSE b

(* When the last of the requests in S returned (start_time if S is empty). *)
RECURSIVE LastFinish(_)
LastFinish(S) ==
    IF S = {} THEN start_time
    ELSE LET i == CHOOSE x \in S : TRUE
         IN  Later(FinishTime(i), LastFinish(S \ {i}))

----------------------------------------------------------------------------
(* Scheduling: the thread of run_load_test and the workers keep running    *)
(* (every step that stays possible is eventually taken), the clock         *)
(* advances and every request in flight eventually returns.                *)
Fairness ==
    /\ WF_vars(Start)
    /\ WF_vars(Submit)
    /\ WF_vars(\E wasBlocked \in BOOLEAN : WorkerTake(wasBlocked))
    /\ \A i \in 1..MaxTotal :
           WF_vars(i \in Futures /\ \E b \in Behaviours : WorkerFinish(i, b))
    /\ WF_vars(Tick)
    /\ WF_vars(\E i \in Futures : Collect(i))
    /\ WF_vars(ExitPool)
    /\ WF_vars(Stats)

SpecFair == Spec /\ Fairness

(* C12: under fair scheduling, with every request eventually returning, a  *)
(* run with concurrent >= 1 and total >= 1 eventually terminates and       *)
(* returns the full statistics, the failure count among them, whichever    *)
(* requests fail.                                                          *)
C12_RunTerminatesWithStatistics ==
    (pc = "start" /\ concurrent >= 1 /\ total >= 1) ~>
        (/\ pc = "done"
         /\ ret.kind = "stats"
         /\ ret.total_requests = total
         /\ ret.failed = Cardinality(Failures)
         /\ ret.successful = Cardinality(Successes)
         /\ yielded = Futures)

C12_Witness ==
    /\ pc = "done"
    /\ total >= 2
    /\ ret.kind = "stats"
    /\ ret.failed >= 1
    /\ ret.successful >= 1
    /\ ret.failed = Cardinality(Failures)

----------------------------------------------------------------------------
(* C13: run_load_test returns None exactly when no outcome was collected;  *)
(* with at least one outcome collected it returns a statistics record,     *)
(* also when every collected outcome is a failure, and a returned record   *)
(* is never one made up for an empty collection.                           *)
C13_NoneIffNothingCollected ==
    /\ pc = "done" => (ret = NoneValue <=> completed = 0)
    /\ pc \in {"done", "raised"} /\ completed >= 1 =>
           /\ pc = "done"
           /\ ret.kind = "stats"
           /\ ret.failed = Cardinality(Failures)
    /\ pc = "done" /\ ret.kind = "stats" =>
           /\ Len(results) >= 1
           /\ ret.total_requests >= 1
           /\ ret.max_response_ms >= 1

C13_Witness ==
    /\ pc = "done"
    /\ total >= 2
    /\ completed = total
    /\ Successes = {}
    /\ ret.kind = "stats"
    /\ ret.failed = total
    /\ ret.successful = 0

----------------------------------------------------------------------------
(* The elapsed times of the requests in S, read from their futures. *)
RECURSIVE SumTimes(_)
SumTimes(S) ==
    IF S = {} THEN 0
    ELSE LET i == CHOOSE x \in S : TRUE
         IN  fresult[i].time + SumTimes(S \ {i})

Occurrences(s, v) == Cardinality({k \in 1..Len(s) : s[k] = v})

WithTime(S, v) == Cardinality({i \in S : fresult[i].time = v})

(* C14: `results` is at all times the multiset of the elapsed times of the *)
(* requests collected so far, failed ones included, each elapsed time      *)
(* being a positive time the request really took; when the pool has been   *)
(* exited that is every request, and avg, min and max of a returned record *)
(* are those of the elapsed times of all requests, failures included.      *)
C14_SampleIsAllElapsedTimes ==
    /\ \A i \in yielded :
           /\ fresult[i].time >= TickUs
           /\ fresult[i].time <= now - rstart[i]
           /\ Occurrences(results, fresult[i].time) = WithTime(yielded, fresult[i].time)
    /\ \A k \in 1..Len(results) : \E i \in yielded : fresult[i].time = results[k]
    /\ Len(results) = Cardinality(yielded)
    /\ Returned =>
           /\ yielded = Futures
           /\ ret.avg_response_ms = RoundDiv(SumTimes(Futures), 10 * total)
           /\ \A i \in Futures :
                  /\ ret.min_response_ms <= Round2Ms(fresult[i].time)
                  /\ ret.max_response_ms >= Round2Ms(fresult[i].time)
           /\ \E i \in Futures : ret.min_response_ms = Round2Ms(fresult[i].time)
           /\ \E i \in Futures : ret.max_response_ms = Round2Ms(fresult[i].time)

C14_Witness ==
    /\ Returned
    /\ total >= 2
    /\ \E i \in Failures : \E j \in Successes :
           /\ fresult[i].status = "error"
           /\ fresult[i].time >= fresult[j].time
           /\ Occurrences(results, fresult[i].time) = total
           /\ ret.max_response_ms = Round2Ms(fresult[i].time)

----------------------------------------------------------------------------
(* C15: the start time is read before any request is dispatched, so no     *)
(* request starts before it; the wall time is measured and the statistics  *)
(* are computed only when every one of the `total` requests has completed  *)
(* and has been collected, none being queued, in flight or uncollected,    *)
(* and the wall time covers every request from its start to its end.       *)
C15_WallTimeSpansAllRequests ==
    /\ pc = "start" =>
           /\ submitted = 0
           /\ \A i \in Futures : fstate[i] = "unsubmitted"
    /\ \A i \in Futures : calls[i] >= 1 => rstart[i] >= start_time
    /\ pc \in {"start", "submit", "collect"} =>
           /\ total_time = 0
           /\ ret.kind = "running"
    /\ pc \in {"stats", "done"} =>
           /\ submitted = (IF total > 0 THEN total ELSE 0)
           /\ queue = <<>>
           /\ InFlight = {}
           /\ yielded = Futures
           /\ completed = Cardinality(Futures)
           /\ total_time = now - start_time
           /\ \A i \in Futures :
                  /\ fstate[i] = "finished"
                  /\ rstart[i] + fresult[i].time <= start_time + total_time

C15_Witness ==
    /\ pc = "stats"
    /\ total >= 2
    /\ yielded = Futures
    /\ total_time >= 2 * TickUs
    /\ \E i \in Futures : rstart[i] > start_time

----------------------------------------------------------------------------
(* The steps of the pool's worker threads. *)
WorkerStep ==
    \/ WorkerIdle
    \/ \E wasBlocked \in BOOLEAN : WorkerTake(wasBlocked)
    \/ \E i \in Futures, b \in Behaviours : WorkerFinish(i, b)

Accumulators == <<results, errors, completed>>

(* C16: the accumulators results, errors and completed are written only    *)
(* by the collecting thread: no step of a worker changes them, a worker    *)
(* that finishes sets the outcome of its own future only, and whatever the *)
(* interleaving, after every step the accumulators hold one entry per      *)
(* collected outcome and one failure per collected failed outcome.         *)
C16_OnlyCollectorWrites ==
    [][/\ WorkerStep => UNCHANGED <<results, errors, completed, order, yielded>>
       /\ \A i \in Futures :
              (\E b \in Behaviours : WorkerFinish(i, b)) =>
                  \A j \in Futures \ {i} :
                      fresult'[j] = fresult[j] /\ fstate'[j] = fstate[j]
       /\ Accumulators' # Accumulators =>
              \/ \E i \in Futures : Collect(i)
              \/ Stats
       /\ Len(results') = Cardinality(yielded')
       /\ completed' = Cardinality(yielded')
       /\ errors' = Cardinality({i \in yielded' : ~fresult'[i].success})]_vars

C16_Witness ==
    /\ concurrent >= 2
    /\ Cardinality({i \in Futures : fstate[i] = "finished"}) >= 2
    /\ Cardinality(yielded) = 1
    /\ errors = 1
    /\ \E i \in Futures \ yielded : ~fresult[i].success

----------------------------------------------------------------------------
(* C17: a pair of the comparison is computed only when both of its runs    *)
(* returned a statistics record; when either returned None the pair is     *)
(* skipped, nothing is computed for it and nothing raises, no field of a   *)
(* None being read.                                                        *)
C17_ComparedOnlyWithBothStatistics ==
    LastPair >= 1 =>
        /\ ~Truthy(Baseline) \/ ~Truthy(Candidate) =>
               /\ improvement = <<>>
               /\ mpc # "raised"
               /\ cmp_idx = LastPair + 1
        /\ improvement # <<>> => Truthy(Baseline) /\ Truthy(Candidate)
        /\ mpc = "raised" => Truthy(Baseline) /\ Truthy(Candidate)

C17_Witness ==
    /\ mpc = "done"
    /\ LastPair = 2
    /\ Baseline = NoneValue
    /\ Truthy(Candidate)
    /\ Truthy(all_results["async_users"])
    /\ Truthy(all_results["sync_users"])
    /\ improvement = <<>>

----------------------------------------------------------------------------
(* main, lines 125-185: the availability check, the metrics reset and the  *)
(* four load tests, followed by the comparison (Compare, Finish).          *)

(* The keys of all_results in the order main runs their load tests         *)
(* (lines 154, 161, 173, 180).                                             *)
RunKeys == <<"async_users", "async_orders", "sync_users", "sync_orders">>

(* Lines 14-15.  The source has 100 workers and 500 requests; main is     *)
(* modelled with a pool of one worker and MainTotal requests per load      *)
(* test, the pool's concurrency being the subject of Spec.                 *)
CONCURRENT_REQUESTS == 1

TOTAL_REQUESTS == MainTotal

(* Lines 17-23: the value check_server returns for one behaviour of its    *)
(* GET /metrics; any exception is swallowed and gives False.               *)
check_server_any_response(behaviour) == behaviour \in StatusCodes

check_server(behaviour) == behaviour = "200"

(* run_load_test is entered with the arguments main passes. *)
RunEntered ==
    /\ concurrent = CONCURRENT_REQUESTS
    /\ total = TOTAL_REQUESTS
    /\ pc = "start"
    /\ start_time = 0
    /\ total_time = 0
    /\ submitted = 0
    /\ queue = <<>>
    /\ threads = 0
    /\ blocked = 0
    /\ idle_sem = 0
    /\ fstate = [i \in 1..TOTAL_REQUESTS |-> "unsubmitted"]
    /\ fresult = [i \in 1..TOTAL_REQUESTS |-> NoOutcome]
    /\ rstart = [i \in 1..TOTAL_REQUESTS |-> 0]
    /\ calls = [i \in 1..TOTAL_REQUESTS |-> 0]
    /\ gets = [i \in 1..TOTAL_REQUESTS |-> "unset"]
    /\ yielded = {}
    /\ results = <<>>
    /\ errors = 0
    /\ completed = 0
    /\ order = <<>>
    /\ ret = [kind |-> "running"]

(* The same for the call that follows the return of a load test. *)
EnterRun ==
    /\ concurrent' = CONCURRENT_REQUESTS
    /\ total' = TOTAL_REQUESTS
    /\ pc' = "start"
    /\ start_time' = 0
    /\ total_time' = 0
    /\ submitted' = 0
    /\ queue' = <<>>
    /\ threads' = 0
    /\ blocked' = 0
    /\ idle_sem' = 0
    /\ fstate' = [i \in 1..TOTAL_REQUESTS |-> "unsubmitted"]
    /\ fresult' = [i \in 1..TOTAL_REQUESTS |-> NoOutcome]
    /\ rstart' = [i \in 1..TOTAL_REQUESTS |-> 0]
    /\ calls' = [i \in 1..TOTAL_REQUESTS |-> 0]
    /\ gets' = [i \in 1..TOTAL_REQUESTS |-> "unset"]
    /\ yielded' = {}
    /\ results' = <<>>
    /\ errors' = 0
    /\ completed' = 0
    /\ order' = <<>>
    /\ ret' = [kind |-> "running"]
    /\ now' = now

InitMain ==
    /\ RunEntered
    /\ now = 0
    /\ all_results = <<>>
    /\ cmp_idx = 0
    /\ improvement = <<>>
    /\ mpc = "check"
    /\ trace = <<>>
    /\ ServeIdle

(* Line 133: check_server() is called. *)
CheckServer ==
    /\ mpc = "check"
    /\ \E behaviour \in Behaviours :
           LET up == check_server(behaviour)
           IN  /\ trace' = Append(trace, [call |-> "check_server", get |-> behaviour,
                                          ret |-> up])
               /\ mpc' = IF up THEN "reset" ELSE "down"
    /\ UNCHANGED <<all_results, cmp_idx, improvement>>
    /\ UNCHANGED runVars
    /\ UNCHANGED serveVars

(* Lines 134-138: the server is not running, sys.exit(1). *)
ExitNotRunning ==
    /\ mpc = "down"
    /\ trace' = Append(trace, [call |-> "sys.exit", ret |-> 1])
    /\ mpc' = "exited"
    /\ UNCHANGED <<all_results, cmp_idx, improvement>>
    /\ UNCHANGED runVars
    /\ UNCHANGED serveVars

(* Lines 140-147: reset_metrics() is called (lines 25-31: it returns None  *)
(* whatever its POST meets, a response of any status or an exception,      *)
(* which it swallows) and main goes on to the first load test.             *)
ResetMetrics ==
    /\ mpc = "reset"
    /\ \E behaviour \in Behaviours :
           trace' = Append(trace, [call |-> "reset_metrics", ret |-> "None"])
    /\ mpc' = "run"
    /\ UNCHANGED <<all_results, cmp_idx, improvement>>
    /\ UNCHANGED runVars
    /\ UNCHANGED serveVars

(* The load test main has called takes a step. *)
RunLoadTestStep ==
    /\ mpc = "run"
    /\ Next

(* Lines 154-185: run_load_test has returned, its value is stored under    *)
(* the key of the load test and the next load test, if any, is called.     *)
ReturnToMain ==
    /\ mpc = "run"
    /\ pc = "done"
    /\ LET n   == Cardinality(DOMAIN all_results) + 1
           key == RunKeys[n]
       IN  /\ all_results' = [k \in DOMAIN all_results \cup {key} |->
                                  IF k = key THEN ret ELSE all_results[k]]
           /\ trace' = Append(trace, [call |-> "run_load_test", key |-> key,
                                      ret |-> ret.kind])
           /\ IF n < Len(RunKeys)
              THEN /\ EnterRun
                   /\ UNCHANGED <<cmp_idx, mpc>>
              ELSE /\ mpc' = "compare"
                   /\ cmp_idx' = 1
                   /\ UNCHANGED runVars
    /\ UNCHANGED improvement
    /\ UNCHANGED serveVars

NextMain ==
    \/ CheckServer
    \/ ExitNotRunning
    \/ ResetMetrics
    \/ RunLoadTestStep
    \/ ReturnToMain
    \/ Compare
    \/ Finish

SpecMain == InitMain /\ [][NextMain]_vars

----------------------------------------------------------------------------
(* The calls main makes when the server answers, in order. *)
CallsInOrder ==
    <<"check_server", "reset_metrics", "run_load_test", "run_load_test",
      "run_load_test", "run_load_test">>

RequestIssued == \E i \in Futures : calls[i] >= 1

(* What holds of main's history in every state. *)
PhasesInOrder ==
    /\ Len(trace) <= Len(CallsInOrder)
    /\ Len(trace) >= 1 =>
           /\ trace[1].call = "check_server"
           /\ trace[1].ret = (trace[1].get = "200")
    /\ Len(trace) >= 1 /\ ~trace[1].ret =>
           /\ mpc \in {"down", "exited"}
           /\ Len(trace) <= 2
           /\ mpc = "exited" <=> Len(trace) = 2
           /\ Len(trace) = 2 => trace[2] = [call |-> "sys.exit", ret |-> 1]
           /\ ~RequestIssued
           /\ pc = "start"
           /\ all_results = <<>>
    /\ Len(trace) >= 1 /\ trace[1].ret =>
           /\ mpc \notin {"down", "exited"}
           /\ \A k \in 1..Len(trace) : trace[k].call = CallsInOrder[k]
           /\ \A k \in 3..Len(trace) : trace[k].key = RunKeys[k - 2]
           /\ DOMAIN all_results = {RunKeys[k - 2] : k \in 3..Len(trace)}
    /\ RequestIssued \/ pc # "start" =>
           /\ Len(trace) >= 2
           /\ trace[1].ret
           /\ trace[2].call = "reset_metrics"
    /\ mpc = "run" <=> (Len(trace) \in 2..5 /\ trace[1].ret)
    /\ mpc \in {"compare", "raised", "done"} =>
           /\ Len(trace) = 6
           /\ DOMAIN all_results = Keys
           /\ InFlight = {}

(* C18: main runs its phases in order: the availability check, the metrics *)
(* reset, the four load tests (async users, async orders, sync users, sync *)
(* orders), then the comparison.  A load test has returned, all of its     *)
(* requests completed and collected and none queued or in flight, when its *)
(* result is stored and the next load test is entered with no request      *)
(* issued yet.  When the availability check fails (its GET does not        *)
(* answer 200) main exits with status 1 with no metrics reset and no       *)
(* load-test request made.                                                 *)
C18_PhasesInOrder ==
    [][/\ PhasesInOrder'
       /\ all_results' # all_results =>
              /\ pc = "done"
              /\ InFlight = {}
              /\ queue = <<>>
              /\ yielded = Futures
              /\ completed = total
              /\ \A i \in Futures : fstate[i] = "finished"
              /\ mpc' = "run" =>
                     /\ pc' = "start"
                     /\ \A i \in 1..total' : calls'[i] = 0 /\ fstate'[i] = "unsubmitted"
              /\ now' = now
       /\ mpc # "run" => UNCHANGED <<calls, fstate, now>>]_vars

C18_Witness ==
    /\ mpc = "done"
    /\ Len(trace) = 6
    /\ trace[1].ret
    /\ trace[6].key = "sync_orders"
    /\ DOMAIN all_results = Keys
    /\ all_results["async_users"].failed = 1
    /\ all_results["sync_orders"].failed = 0

----------------------------------------------------------------------------
(* web/serve.py, lines 7-27: the loop over ports_to_try.                   *)

ports_to_try == <<8000, 8081, 8082, 3001, 5500, 9000>>

(* errno of the OSError with which binding a port that is in use fails:    *)
(* EADDRINUSE is 48 on macOS and 98 on Linux, WSAEADDRINUSE is 10048.      *)
InUseErrnos == {48, 98, 10048}

(* errno when binding the port is not permitted: EACCES is 13 on Linux and *)
(* macOS, WSAEACCES is 10013.                                              *)
NotPermittedErrnos == {13, 10013}

(* What TCPServer(("", port), Handler) can do (line 12): bind the port     *)
(* (no error, written as errno 0) or raise OSError with one of the errnos  *)
(* above.                                                                  *)
Bound == 0

BindOutcomes == {Bound} \cup InUseErrnos \cup NotPermittedErrnos

(* Line 19, the errnos for which the loop continues with the next port. *)
SkipsPort(errno) == errno = 10013 \/ errno = 48

InitServe ==
    /\ RunQuiet
    /\ MainIdle
    /\ port_idx = 1
    /\ spc = "loop"
    /\ attempts = <<>>
    /\ exit_code = "none"
    /\ printed = "nothing"

(* Lines 9-24, one iteration of the loop: the port is bound and the server *)
(* starts serving, or the bind raises OSError and the handler of lines     *)
(* 18-24 continues with the next port or exits with status 1.              *)
TryPort ==
    /\ spc = "loop"
    /\ port_idx <= Len(ports_to_try)
    /\ \E outcome \in BindOutcomes :
           /\ attempts' = Append(attempts, [port |-> ports_to_try[port_idx],
                                            outcome |-> outcome])
           /\ IF outcome = Bound
              THEN /\ spc' = "serving"
                   /\ printed' = "Server started successfully"
                   /\ UNCHANGED <<port_idx, exit_code>>
              ELSE IF SkipsPort(outcome)
              THEN /\ spc' = "loop"
                   /\ printed' = "Port is not available, trying next port"
                   /\ port_idx' = port_idx + 1
                   /\ UNCHANGED exit_code
              ELSE /\ spc' = "exited"
                   /\ printed' = "Error"
                   /\ exit_code' = 1
                   /\ UNCHANGED port_idx
    /\ UNCHANGED runVars
    /\ UNCHANGED mainVars

(* Lines 25-27, the else of the for loop: the list is exhausted. *)
NoPortLeft ==
    /\ spc = "loop"
    /\ port_idx > Len(ports_to_try)
    /\ spc' = "exited"
    /\ printed' = "Could not find an available port"
    /\ exit_code' = 1
    /\ UNCHANGED <<port_idx, attempts>>
    /\ UNCHANGED runVars
    /\ UNCHANGED mainVars

(* Line 16: serve_forever() runs until the user presses Ctrl+C, whose      *)
(* KeyboardInterrupt no handler of the script catches.                     *)
Interrupt ==
    /\ spc = "serving"
    /\ spc' = "interrupted"
    /\ exit_code' = "KeyboardInterrupt"
    /\ UNCHANGED <<port_idx, attempts, printed>>
    /\ UNCHANGED runVars
    /\ UNCHANGED mainVars

NextServe ==
    \/ TryPort
    \/ NoPortLeft
    \/ Interrupt

SpecServe == InitServe /\ [][NextServe]_vars

----------------------------------------------------------------------------
Unavailable(outcome) == outcome \in InUseErrnos \cup NotPermittedErrnos

LastAttempt == attempts[Len(attempts)]

(* C19: the ports are tried in the order of the list; after a bind that    *)
(* failed because the port is in use or not permitted the script goes on   *)
(* to the next port (or, after the last port, to the exit below); it       *)
(* serves on the first port that binds and tries no later one; it exits    *)
(* with status 1 and the message that no port could be found only when     *)
(* every port of the list was tried and was unavailable.                   *)
C19_UnavailablePortsAreSkipped ==
    /\ Len(attempts) <= Len(ports_to_try)
    /\ \A k \in 1..Len(attempts) : attempts[k].port = ports_to_try[k]
    /\ \A k \in 1..Len(attempts) - 1 : Unavailable(attempts[k].outcome)
    /\ Len(attempts) >= 1 /\ Unavailable(LastAttempt.outcome) =>
           \/ spc = "loop" /\ port_idx = Len(attempts) + 1
           \/ /\ spc = "exited"
              /\ Len(attempts) = Len(ports_to_try)
              /\ printed = "Could not find an available port"
              /\ exit_code = 1
    /\ spc \in {"serving", "interrupted"} =>
           /\ LastAttempt.outcome = Bound
           /\ LastAttempt.port = ports_to_try[port_idx]
    /\ printed = "Could not find an available port" =>
           /\ exit_code = 1
           /\ Len(attempts) = Len(ports_to_try)
           /\ \A k \in 1..Len(attempts) : Unavailable(attempts[k].outcome)

====
